---------------------------- MODULE Spec2Model ----------------------------
(***************************************************************************)
(* Model of the invoice field-extraction pipeline of chat.py and of the    *)
(* HTTP handler of app.py.  A Python str is a sequence of one-character    *)
(* strings; a Python float is an exact decimal <<m, k>> = m * 10^k.        *)
(***************************************************************************)
EXTENDS Integers, Sequences, FiniteSets, TLC

VARIABLES
    pc,            \* position of the request in extract_api / extract_fields_from_pdfbytes
    file,          \* the uploaded document as the external libraries see it
    text_layer,    \* chat.py:186
    lines,         \* chat.py:187, 190
    img,           \* chat.py:189: what the rasterizer did ("none", "image", "raised")
    ocr,           \* chat.py:190: what the OCR call did ("none", "text", "raised")
    ocr_raw,       \* the raw string pytesseract returned, when ocr = "text"
    merged_lines,  \* chat.py:194
    fields,        \* the dict returned at chat.py:206
    response,      \* what extract_api answered
    fn_arg,        \* argument of the pure function under check
    fn_ret,        \* its result
    fn_done        \* whether the function has been applied

vars == <<pc, file, text_layer, lines, img, ocr, ocr_raw, merged_lines,
          fields, response, fn_arg, fn_ret, fn_done>>

---------------------------------------------------------------------------
(* Characters and the str methods the code uses.                           *)

DigitSeq == <<"0","1","2","3","4","5","6","7","8","9">>
UpperSeq == <<"A","B","C","D","E","F","G","H","I","J","K","L","M","N","O","P","Q","R","S","T","U","V","W","X","Y","Z">>
LowerSeq == <<"a","b","c","d","e","f","g","h","i","j","k","l","m","n","o","p","q","r","s","t","u","v","w","x","y","z">>

Range(s) == {s[i] : i \in DOMAIN s}

IsDigit(c) == c \in Range(DigitSeq)
IsUpper(c) == c \in Range(UpperSeq)
IsLower(c) == c \in Range(LowerSeq)
IsAlnum(c) == IsDigit(c) \/ IsUpper(c) \/ IsLower(c)
\* str.isspace / the regex class \s, over the characters of the model
IsSpace(c) == c \in {" ", "\t", "\n"}

\* [\d,], the characters of a number in extract_gst_values_from_lines
IsNumChar(c) == IsDigit(c) \/ c = ","

\* [A-Z0-9/-], the characters of extract_invoice_number_from_lines
IsInvChar(c) == IsUpper(c) \/ IsDigit(c) \/ c \in {"/", "-"}

\* the character classes whose runs the regular expressions take
InClass(cls, c) ==
    CASE cls = "digit" -> IsDigit(c)
      [] cls = "space" -> IsSpace(c)
      [] cls = "num"   -> IsNumChar(c)
      [] cls = "inv"   -> IsInvChar(c)
      [] cls = "line"  -> c # "\n"

DigitVal(c) == (CHOOSE i \in DOMAIN DigitSeq : DigitSeq[i] = c) - 1

UpperChar(c) == IF IsLower(c) THEN UpperSeq[CHOOSE i \in DOMAIN LowerSeq : LowerSeq[i] = c] ELSE c

\* str.upper()
StrUpper(s) == [i \in DOMAIN s |-> UpperChar(s[i])]

\* s[i:] with a 1-based i
Tail_(s, i) == SubSeq(s, i, Len(s))

\* s.startswith(sub, i-1)
StartsWithAt(s, i, sub) ==
    /\ i + Len(sub) - 1 <= Len(s)
    /\ \A j \in DOMAIN sub : s[i + j - 1] = sub[j]

\* sub in s
Contains(s, sub) == \E i \in 1..(Len(s) + 1) : StartsWithAt(s, i, sub)

\* x in xs, for a list xs
InList(x, xs) == \E i \in DOMAIN xs : xs[i] = x

RECURSIVE LStrip(_)
LStrip(s) == IF s # <<>> /\ IsSpace(Head(s)) THEN LStrip(Tail(s)) ELSE s

RECURSIVE RStrip(_)
RStrip(s) == IF s # <<>> /\ IsSpace(s[Len(s)]) THEN RStrip(SubSeq(s, 1, Len(s) - 1)) ELSE s

\* str.strip()
Strip(s) == RStrip(LStrip(s))

\* str.replace(old, new), old non-empty: leftmost, non-overlapping
RECURSIVE Replace(_, _, _)
Replace(s, old, new) ==
    IF s = <<>> THEN <<>>
    ELSE IF StartsWithAt(s, 1, old) THEN new \o Replace(Tail_(s, Len(old) + 1), old, new)
    ELSE <<Head(s)>> \o Replace(Tail(s), old, new)

\* index of the first character at or after i that is not of the class, or Len(s)+1
RunEnd(s, i, cls) ==
    CHOOSE j \in i..(Len(s) + 1) :
        /\ \A k \in i..(j - 1) : InClass(cls, s[k])
        /\ j = Len(s) + 1 \/ ~InClass(cls, s[j])


\* str.splitlines(), the only line boundary of the model being "\n"
RECURSIVE SplitLines(_)
SplitLines(s) ==
    IF s = <<>> THEN <<>>
    ELSE LET e == RunEnd(s, 1, "line")
         IN  <<SubSeq(s, 1, e - 1)>> \o SplitLines(Tail_(s, e + 1))

\* "\n".join(lines)
RECURSIVE Join(_)
Join(ls) ==
    IF ls = <<>> THEN <<>>
    ELSE IF Len(ls) = 1 THEN ls[1]
    ELSE ls[1] \o <<"\n">> \o Join(Tail(ls))

---------------------------------------------------------------------------
(* Floats as exact decimals <<m, k>> = m * 10^k, m not a multiple of 10    *)
(* unless the value is 0 = <<0, 0>>, so that equal values are equal pairs.  *)

RECURSIVE Pow10(_)
Pow10(n) == IF n = 0 THEN 1 ELSE 10 * Pow10(n - 1)

RECURSIVE Norm(_)
Norm(v) ==
    IF v[1] = 0 THEN <<0, 0>>
    ELSE IF v[1] % 10 = 0 THEN Norm(<<v[1] \div 10, v[2] + 1>>)
    ELSE v

Zero == <<0, 0>>

MinInt(a, b) == IF a <= b THEN a ELSE b

\* the mantissa of v at exponent k <= v[2]
Scaled(v, k) == v[1] * Pow10(v[2] - k)

FloatLess(a, b) == LET k == MinInt(a[2], b[2]) IN Scaled(a, k) < Scaled(b, k)

FloatAdd(a, b) == LET k == MinInt(a[2], b[2]) IN Norm(<<Scaled(a, k) + Scaled(b, k), k>>)

\* max(a, b): Python returns the first of two equal arguments
FloatMax(a, b) == IF FloatLess(a, b) THEN b ELSE a

\* max(acc, *xs)
RECURSIVE MaxOf(_, _)
MaxOf(acc, xs) == IF xs = <<>> THEN acc ELSE MaxOf(FloatMax(acc, Head(xs)), Tail(xs))

\* int() of a run of digits ("" counts 0)
RECURSIVE DigitsVal(_)
DigitsVal(s) == IF s = <<>> THEN 0 ELSE 10 * DigitsVal(SubSeq(s, 1, Len(s) - 1)) + DigitVal(s[Len(s)])

\* float(s) for s over the characters 0-9 - . + e E, computed left to right:
\* p is where the digits start, ie where the integer part ends, fs and fe
\* where the fraction starts and ends, xs and xe the same for the exponent.
\* The result is <<TRUE, value>>, or <<FALSE, Zero>> where float() raises.
IsSign(s, i) == i <= Len(s) /\ s[i] \in {"+", "-"}
IsMinus(s, i) == i <= Len(s) /\ s[i] = "-"

PFValue(s, p, ie, fs, fe, hasE, xs, xe) ==
    IF /\ (ie - p) + (fe - fs) >= 1
       /\ hasE => xe > xs
       /\ xe = Len(s) + 1
    THEN <<TRUE, Norm(<<(IF IsMinus(s, 1) THEN -1 ELSE 1)
                           * DigitsVal(SubSeq(s, p, ie - 1) \o SubSeq(s, fs, fe - 1)),
                        (IF hasE THEN (IF IsMinus(s, fe + 1) THEN -1 ELSE 1)
                                        * DigitsVal(SubSeq(s, xs, xe - 1))
                                 ELSE 0) - (fe - fs)>>)>>
    ELSE <<FALSE, Zero>>

PFExpDigits(s, p, ie, fs, fe, hasE, xs) ==
    PFValue(s, p, ie, fs, fe, hasE, xs, IF hasE THEN RunEnd(s, xs, "digit") ELSE fe)

PFExp(s, p, ie, fs, fe, hasE) ==
    PFExpDigits(s, p, ie, fs, fe, hasE, IF hasE /\ IsSign(s, fe + 1) THEN fe + 2 ELSE fe + 1)

PFFracEnd(s, p, ie, fs, fe) == PFExp(s, p, ie, fs, fe, fe <= Len(s) /\ s[fe] \in {"e", "E"})

PFFrac(s, p, ie, fs) == PFFracEnd(s, p, ie, fs, RunEnd(s, fs, "digit"))

PFInt(s, p, ie) == PFFrac(s, p, ie, IF ie <= Len(s) /\ s[ie] = "." THEN ie + 1 ELSE ie)

PFDigits(s, p) == PFInt(s, p, RunEnd(s, p, "digit"))

ParseFloat(s) == PFDigits(s, IF IsSign(s, 1) THEN 2 ELSE 1)

\* re.sub(r'[Oo]', '0', s)
OToZero(s) == [i \in DOMAIN s |-> IF s[i] \in {"O", "o"} THEN "0" ELSE s[i]]

IsFloatChar(c) == IsDigit(c) \/ c \in {"-", ".", "+", "e", "E"}

\* float(s) if s else 0.0, with the except: return 0.0
FloatOrZero(s) == IF s = <<>> THEN Zero ELSE ParseFloat(s)[2]

\* chat.py safe_float, for a str argument
safe_float(x) ==
    FloatOrZero(SelectSeq(OToZero(Replace(Replace(Replace(Strip(x),
        <<"R","s",".">>, <<>>), <<"I","N","R">>, <<>>), <<",">>, <<>>)), IsFloatChar))

---------------------------------------------------------------------------
(* chat.py, Utilities.                                                     *)

\* the dict STATE_CODES as its items: <<code, state name>>
STATE_CODES == <<
    <<<<"0","1">>, "Jammu & Kashmir">>, <<<<"0","2">>, "Himachal Pradesh">>, <<<<"0","3">>, "Punjab">>,
    <<<<"0","4">>, "Chandigarh">>, <<<<"0","5">>, "Uttarakhand">>, <<<<"0","6">>, "Haryana">>,
    <<<<"0","7">>, "Delhi">>, <<<<"0","8">>, "Rajasthan">>, <<<<"0","9">>, "Uttar Pradesh">>,
    <<<<"1","0">>, "Bihar">>, <<<<"1","1">>, "Sikkim">>, <<<<"1","2">>, "Arunachal Pradesh">>,
    <<<<"1","3">>, "Nagaland">>, <<<<"1","4">>, "Manipur">>, <<<<"1","5">>, "Mizoram">>,
    <<<<"1","6">>, "Tripura">>, <<<<"1","7">>, "Meghalaya">>, <<<<"1","8">>, "Assam">>,
    <<<<"1","9">>, "West Bengal">>, <<<<"2","0">>, "Jharkhand">>, <<<<"2","1">>, "Odisha">>,
    <<<<"2","2">>, "Chhattisgarh">>, <<<<"2","3">>, "Madhya Pradesh">>, <<<<"2","4">>, "Gujarat">>,
    <<<<"2","5">>, "Daman & Diu">>, <<<<"2","6">>, "Dadra & Nagar Haveli">>, <<<<"2","7">>, "Maharashtra">>,
    <<<<"2","8">>, "Karnataka">>, <<<<"2","9">>, "Goa">>, <<<<"3","0">>, "Lakshadweep">>,
    <<<<"3","1">>, "Kerala">>, <<<<"3","2">>, "Tamil Nadu">>, <<<<"3","3">>, "Puducherry">>,
    <<<<"3","4">>, "Andaman & Nicobar">>, <<<<"3","5">>, "Telangana">>, <<<<"3","6">>, "Andhra Pradesh">>,
    <<<<"3","7">>, "Ladakh">>
>>

\* GSTIN_REGEX, one character class per position: d = \d, L = [A-Z],
\* X = [A-Z\d], Z = the letter Z
GSTIN_REGEX == <<"d", "d", "L", "L", "L", "L", "L", "d", "d", "d", "d", "L", "X", "Z", "X">>

ClassMatch(cls, c) ==
    CASE cls = "d" -> IsDigit(c)
      [] cls = "L" -> IsUpper(c)
      [] cls = "X" -> IsUpper(c) \/ IsDigit(c)
      [] cls = "Z" -> c = "Z"

\* the pattern, a sequence of classes, matches s at index i
MatchAt(pat, s, i) ==
    /\ i + Len(pat) - 1 <= Len(s)
    /\ \A j \in DOMAIN pat : ClassMatch(pat[j], s[i + j - 1])

\* re.findall(pat, s) from index i on: leftmost matches, the scan resuming
\* after the end of each match
RECURSIVE FindAllFrom(_, _, _)
FindAllFrom(pat, s, i) ==
    IF i > Len(s) THEN <<>>
    ELSE IF MatchAt(pat, s, i)
         THEN <<SubSeq(s, i, i + Len(pat) - 1)>> \o FindAllFrom(pat, s, i + Len(pat))
         ELSE FindAllFrom(pat, s, i + 1)

\* the slice gstin[1:3] in place of gstin[:2]
extract_state_code_shifted(g) ==
    LET gstin == Strip(g)
    IN  IF Len(gstin) >= 2 /\ IsDigit(gstin[1]) /\ IsDigit(gstin[2])
        THEN SubSeq(gstin, 2, MinInt(3, Len(gstin)))
        ELSE <<>>

extract_state_code_from_gstin(g) ==
    LET gstin == Strip(g)
    IN  IF Len(gstin) >= 2 /\ IsDigit(gstin[1]) /\ IsDigit(gstin[2])
        THEN SubSeq(gstin, 1, 2)
        ELSE <<>>

\* STATE_CODES.get(code, "Unknown")
gst_code_to_state_unknown(code) ==
    IF \E i \in DOMAIN STATE_CODES : STATE_CODES[i][1] = code
    THEN STATE_CODES[CHOOSE i \in DOMAIN STATE_CODES : STATE_CODES[i][1] = code][2]
    ELSE "Unknown"

gst_code_to_state(code) ==
    IF \E i \in DOMAIN STATE_CODES : STATE_CODES[i][1] = code
    THEN STATE_CODES[CHOOSE i \in DOMAIN STATE_CODES : STATE_CODES[i][1] = code][2]
    ELSE ""

\* found[:2]
FirstTwo(found) == SubSeq(found, 1, MinInt(2, Len(found)))

find_gstins_in_text(text) ==
    FirstTwo(FindAllFrom(GSTIN_REGEX, SelectSeq(StrUpper(text), IsAlnum), 1))

\* s.replace("  ", " "): pairs of spaces, not runs
CollapseSpacesPairwise(s) == Replace(s, <<" "," ">>, <<" ">>)

\* re.sub(r'\s{2,}', ' ', s)
RECURSIVE CollapseSpaces(_)
CollapseSpaces(s) ==
    IF s = <<>> THEN <<>>
    ELSE IF IsSpace(Head(s))
         THEN LET e == RunEnd(s, 1, "space")
              IN  IF e - 1 >= 2 THEN <<" ">> \o CollapseSpaces(Tail_(s, e))
                  ELSE <<Head(s)>> \o CollapseSpaces(Tail(s))
         ELSE <<Head(s)>> \o CollapseSpaces(Tail(s))

normalize_ocr_line(line) ==
    IF line = <<>> THEN <<>>
    ELSE LET ln == Replace(Replace(Replace(Replace(Strip(line),
                       <<"\t">>, <<" ">>), <<"C","6","S","T">>, <<"C","G","S","T">>), <<"S","6","S","T">>, <<"S","G","S","T">>), <<"1","G","S","T">>, <<"I","G","S","T">>)
         IN  CollapseSpaces(ln)

\* [normalize_ocr_line(l) for l in text.splitlines() if l.strip()]
NormalizedLines(text) ==
    LET kept == SelectSeq(SplitLines(text), LAMBDA l : Strip(l) # <<>>)
    IN  [i \in DOMAIN kept |-> normalize_ocr_line(kept[i])]

\* read_text_layer over the pages PdfReader yields; a page whose
\* extract_text raises ends the loop, the text read so far being returned
RECURSIVE PagesText(_)
PagesText(pages) ==
    IF pages = <<>> THEN <<>>
    ELSE IF ~Head(pages).ok THEN <<>>
    ELSE IF Head(pages).text = <<>> THEN PagesText(Tail(pages))
    ELSE Head(pages).text \o <<"\n">> \o PagesText(Tail(pages))

read_text_layer(f) == IF f.kind = "pdf" THEN PagesText(f.pages) ELSE <<>>

\* ocr_lines_from_image, raw being what pytesseract.image_to_string returned
ocr_lines_from_image(raw) == NormalizedLines(raw)

\* re.search(r"[A-Z0-9/-]{3,}", s) from index i on: the match, or "" for None
RECURSIVE SearchInv(_, _)
SearchInv(s, i) ==
    IF i > Len(s) THEN <<>>
    ELSE IF IsInvChar(s[i])
         THEN LET e == RunEnd(s, i, "inv")
              IN  IF e - i >= 3 THEN SubSeq(s, i, e - 1) ELSE SearchInv(s, e)
         ELSE SearchInv(s, i + 1)

extract_invoice_number_from_lines(ls) == SearchInv(Join(ls), 1)

\* found[i-1] if len(found) > i-1 else ""
FoundOr(found, i) == IF Len(found) >= i THEN found[i] ELSE <<>>

\* the draft variant that takes the first match as Buyer, the second as Seller
extract_gstins_swapped(ls) ==
    <<FoundOr(find_gstins_in_text(Join(ls)), 2),
      extract_state_code_from_gstin(FoundOr(find_gstins_in_text(Join(ls)), 2)),
      FoundOr(find_gstins_in_text(Join(ls)), 1),
      extract_state_code_from_gstin(FoundOr(find_gstins_in_text(Join(ls)), 1))>>

extract_gstins_from_lines(ls) ==
    <<FoundOr(find_gstins_in_text(Join(ls)), 1),
      extract_state_code_from_gstin(FoundOr(find_gstins_in_text(Join(ls)), 1)),
      FoundOr(find_gstins_in_text(Join(ls)), 2),
      extract_state_code_from_gstin(FoundOr(find_gstins_in_text(Join(ls)), 2))>>

\* the end of the match of [\d,]+\.\d+|[\d,]+ whose run of [\d,] ends
\* before index e: the fraction is taken when a "." and a digit follow
NumEnd(s, e) ==
    IF e + 1 <= Len(s) /\ s[e] = "." /\ IsDigit(s[e + 1]) THEN RunEnd(s, e + 1, "digit") ELSE e

\* re.findall(r'[\d,]+\.\d+|[\d,]+', s) from index i on
RECURSIVE FindNums(_, _)
FindNums(s, i) ==
    IF i > Len(s) THEN <<>>
    ELSE IF IsNumChar(s[i])
         THEN LET m == NumEnd(s, RunEnd(s, i, "num"))
              IN  <<SubSeq(s, i, m - 1)>> \o FindNums(s, m)
         ELSE FindNums(s, i + 1)

\* (nums or [0]) for nums = [safe_float(n) for n in found]
NumArgs(found) ==
    IF found = <<>> THEN <<Zero>> ELSE [i \in DOMAIN found |-> safe_float(found[i])]

\* res[key] = max(*args): the value of the last labelled line, not the maximum
GstUpdateOverwrite(v, ln_up, label, args) ==
    IF Contains(ln_up, label) THEN MaxOf(Head(args), Tail(args)) ELSE v

\* if label in ln_up: res[key] = max(res[key], *args)
GstUpdate(v, ln_up, label, args) == IF Contains(ln_up, label) THEN MaxOf(v, args) ELSE v

GstLineUpdate(res, ln_up, args) ==
    [Taxable_Value |-> GstUpdate(res.Taxable_Value, ln_up, <<"T","A","X","A","B","L","E">>, args),
     CGST          |-> GstUpdate(res.CGST, ln_up, <<"C","G","S","T">>, args),
     SGST          |-> GstUpdate(res.SGST, ln_up, <<"S","G","S","T">>, args),
     IGST          |-> GstUpdate(res.IGST, ln_up, <<"I","G","S","T">>, args)]

\* one pass of the loop body of extract_gst_values_from_lines
GstLine(res, ln) == GstLineUpdate(res, StrUpper(ln), NumArgs(FindNums(ln, 1)))

RECURSIVE GstLoop(_, _)
GstLoop(res, ls) == IF ls = <<>> THEN res ELSE GstLoop(GstLine(res, Head(ls)), Tail(ls))

extract_gst_values_from_lines(ls) ==
    GstLoop([Taxable_Value |-> Zero, CGST |-> Zero, SGST |-> Zero, IGST |-> Zero], ls)

---------------------------------------------------------------------------
(* chat.py extract_fields_from_pdfbytes, its merge and its result.         *)

\* lines += [l for l in ocr_lines if l not in lines]: the comprehension is
\* evaluated against the list as it was before the +=
OcrMerge(ls, ocr_lines) == ls \o SelectSeq(ocr_lines, LAMBDA l : ~InList(l, ls))

\* the "Deduplicate" loop, chat.py:194-199
RECURSIVE DedupLoop(_, _)
DedupLoop(merged, ls) ==
    IF ls = <<>> THEN merged
    ELSE IF InList(Head(ls), merged) THEN DedupLoop(merged, Tail(ls))
    ELSE DedupLoop(Append(merged, Head(ls)), Tail(ls))

\* the merge without its deduplication loop
DeduplicateSkipped(ls) == ls

Deduplicate(ls) == DedupLoop(<<>>, ls)

\* the total of the three taxes only, the taxable value left out
TotalAmountTaxesOnly(gst_values) ==
    FloatAdd(FloatAdd(gst_values.IGST, gst_values.CGST), gst_values.SGST)

TotalAmount(gst_values) ==
    FloatAdd(FloatAdd(FloatAdd(gst_values.Taxable_Value, gst_values.IGST),
                      gst_values.CGST), gst_values.SGST)

\* the dict literal of chat.py:206-222
BuildRecord(gst_values, g, inv) ==
    [Invoice_Number    |-> inv,
     Seller_GST        |-> g[1],
     Seller_State      |-> gst_code_to_state(g[2]),
     Seller_State_Code |-> g[2],
     Buyer_GST         |-> g[3],
     Buyer_State       |-> gst_code_to_state(g[4]),
     Buyer_State_Code  |-> g[4],
     IGST              |-> gst_values.IGST,
     CGST              |-> gst_values.CGST,
     SGST              |-> gst_values.SGST,
     Taxable_Value     |-> gst_values.Taxable_Value,
     Total_Amount      |-> TotalAmount(gst_values)]

\* chat.py:202-222
ExtractRecord(ls) ==
    BuildRecord(extract_gst_values_from_lines(ls), extract_gstins_from_lines(ls),
                extract_invoice_number_from_lines(ls))

---------------------------------------------------------------------------
(* The documents and OCR outputs the model uploads.                        *)

MaxPages == 2

\* what page.extract_text() returns, page by page
PageTexts == {
    <<"I","n","v","o","i","c","e"," ","N","o",":"," ","I","N","V","-","2","0","2","4","/","0","0","1","\n","2","7","A","A","A","A","A","0","0","0","0","A","1","Z","5","\n","0","7","B","B","B","B","B","1","1","1","1","B","2","Z","6","\n","C","G","S","T"," ","1","2","3","4",".","5","0">>,
    <<"T","A","X","A","B","L","E"," "," ","1","0","0","\n"," ","\n","C","6","S","T"," ","9",".","5","\n","I","G","S","T"," ","1","8","\n","I","G","S","T"," ","1","8">>,
    <<"9","9","C","C","C","C","C","2","2","2","2","C","3","Z","7","\n","S","G","S","T"," ","9",".","5","0">>,
    <<>> }

\* a page: its text, or ok = FALSE when extract_text raises on it
Pages == [ok : {TRUE}, text : PageTexts] \cup {[ok |-> FALSE, text |-> <<>>]}

RECURSIVE SeqsUpTo(_, _)
SeqsUpTo(S, n) ==
    IF n = 0 THEN {<<>>}
    ELSE LET shorter == SeqsUpTo(S, n - 1)
         IN  shorter \cup {Append(q, x) : q \in {r \in shorter : Len(r) = n - 1}, x \in S}

\* kind "none": the request carries no file; "malformed": bytes neither
\* PdfReader nor fitz can open; "pdf": a document of these pages
Files ==
    {[kind |-> "none", pages |-> <<>>], [kind |-> "malformed", pages |-> <<>>]}
    \cup [kind : {"pdf"}, pages : SeqsUpTo(Pages, MaxPages)]

\* what pytesseract.image_to_string returns for the first page's image
OcrTexts == {
    <<"C","G","S","T"," ","1","2","3","4",".","5","0","\n","S","6","S","T"," ","7","\n","C","G","S","T"," ","1","2","3","4",".","5","0","\n","1","G","S","T"," "," ","1","8">>,
    <<"2","7","A","A","A","A","A","0","0","0","0","A","1","Z","5","\n","\n","T","o","t","a","l"," ","5">>,
    <<>> }

NoFile == [kind |-> "none", pages |-> <<>>]
\* the value of fields while no record has been built
NoFields ==
    [Invoice_Number |-> <<>>, Seller_GST |-> <<>>, Seller_State |-> "",
     Seller_State_Code |-> <<>>, Buyer_GST |-> <<>>, Buyer_State |-> "",
     Buyer_State_Code |-> <<>>, IGST |-> Zero, CGST |-> Zero, SGST |-> Zero,
     Taxable_Value |-> Zero, Total_Amount |-> Zero]
NoResponse == [status |-> "none", code |-> 0]

---------------------------------------------------------------------------
(* app.py extract_api and the steps of extract_fields_from_pdfbytes.       *)

PipelineInit ==
    /\ pc = "idle"
    /\ file = NoFile
    /\ text_layer = <<>>
    /\ lines = <<>>
    /\ img = "none"
    /\ ocr = "none"
    /\ ocr_raw = <<>>
    /\ merged_lines = <<>>
    /\ fields = NoFields
    /\ response = NoResponse

FnIdle ==
    /\ fn_arg = <<>>
    /\ fn_ret = <<>>
    /\ fn_done = FALSE

Init == PipelineInit /\ FnIdle

\* app.py:14-15
RequestNoFile ==
    /\ pc = "idle"
    /\ file' = NoFile
    /\ response' = [status |-> "error", code |-> 400]
    /\ pc' = "responded"
    /\ UNCHANGED <<text_layer, lines, img, ocr, ocr_raw, merged_lines, fields>>
    /\ UNCHANGED <<fn_arg, fn_ret, fn_done>>

\* app.py:16-18, the call of extract_fields_from_pdfbytes
RequestFile(f) ==
    /\ pc = "idle"
    /\ f.kind # "none"
    /\ file' = f
    /\ pc' = "text_layer"
    /\ UNCHANGED <<text_layer, lines, img, ocr, ocr_raw, merged_lines, fields, response>>
    /\ UNCHANGED <<fn_arg, fn_ret, fn_done>>

\* chat.py:185-187
ReadTextLayer ==
    /\ pc = "text_layer"
    /\ text_layer' = read_text_layer(file)
    /\ lines' = NormalizedLines(text_layer')
    /\ pc' = "rasterize"
    /\ UNCHANGED <<file, img, ocr, ocr_raw, merged_lines, fields, response>>
    /\ UNCHANGED <<fn_arg, fn_ret, fn_done>>

\* chat.py:189, pdf_page_to_image returns: the document opens and has a page 0
RasterizeOk ==
    /\ pc = "rasterize"
    /\ file.kind = "pdf"
    /\ file.pages # <<>>
    /\ img' = "image"
    /\ pc' = "ocr"
    /\ UNCHANGED <<file, text_layer, lines, ocr, ocr_raw, merged_lines, fields, response>>
    /\ UNCHANGED <<fn_arg, fn_ret, fn_done>>

\* chat.py:189 and 191, pdf_page_to_image raises (fitz cannot open the bytes,
\* there is no page 0, or rendering fails): except: pass
RasterizeRaise ==
    /\ pc = "rasterize"
    /\ img' = "raised"
    /\ pc' = "deduplicate"
    /\ UNCHANGED <<file, text_layer, lines, ocr, ocr_raw, merged_lines, fields, response>>
    /\ UNCHANGED <<fn_arg, fn_ret, fn_done>>

\* chat.py:190, preprocess_for_high_accuracy (which never raises) and
\* ocr_lines_from_image return
OcrOk(raw) ==
    /\ pc = "ocr"
    /\ ocr' = "text"
    /\ ocr_raw' = raw
    /\ lines' = OcrMerge(lines, ocr_lines_from_image(raw))
    /\ pc' = "deduplicate"
    /\ UNCHANGED <<file, text_layer, img, merged_lines, fields, response>>
    /\ UNCHANGED <<fn_arg, fn_ret, fn_done>>

\* the OCR lines appended one by one, the first of them before the raise
OcrRaisePartial ==
    /\ pc = "ocr"
    /\ ocr' = "raised"
    /\ \E raw \in OcrTexts :
           lines' = OcrMerge(lines, SubSeq(ocr_lines_from_image(raw), 1,
                                         MinInt(1, Len(ocr_lines_from_image(raw)))))
    /\ pc' = "deduplicate"
    /\ UNCHANGED <<file, text_layer, img, ocr_raw, merged_lines, fields, response>>
    /\ UNCHANGED <<fn_arg, fn_ret, fn_done>>

\* chat.py:190-191, pytesseract raises: except: pass, before lines is assigned
OcrRaise ==
    /\ pc = "ocr"
    /\ ocr' = "raised"
    /\ pc' = "deduplicate"
    /\ UNCHANGED <<file, text_layer, lines, img, ocr_raw, merged_lines, fields, response>>
    /\ UNCHANGED <<fn_arg, fn_ret, fn_done>>

\* chat.py:193-199
DeduplicateLines ==
    /\ pc = "deduplicate"
    /\ merged_lines' = Deduplicate(lines)
    /\ pc' = "extract"
    /\ UNCHANGED <<file, text_layer, lines, img, ocr, ocr_raw, fields, response>>
    /\ UNCHANGED <<fn_arg, fn_ret, fn_done>>

\* chat.py:201-222
ExtractFields ==
    /\ pc = "extract"
    /\ fields' = ExtractRecord(merged_lines)
    /\ pc' = "return"
    /\ UNCHANGED <<file, text_layer, lines, img, ocr, ocr_raw, merged_lines, response>>
    /\ UNCHANGED <<fn_arg, fn_ret, fn_done>>

\* app.py:19: the call returned, no step of it having let an exception out
RespondSuccess ==
    /\ pc = "return"
    /\ response' = [status |-> "success", code |-> 200]
    /\ pc' = "responded"
    /\ UNCHANGED <<file, text_layer, lines, img, ocr, ocr_raw, merged_lines, fields>>
    /\ UNCHANGED <<fn_arg, fn_ret, fn_done>>

\* the server is ready for the next request; nothing of the last one is kept
NextRequest ==
    /\ pc = "responded"
    /\ pc' = "idle"
    /\ file' = NoFile
    /\ text_layer' = <<>>
    /\ lines' = <<>>
    /\ img' = "none"
    /\ ocr' = "none"
    /\ ocr_raw' = <<>>
    /\ merged_lines' = <<>>
    /\ fields' = NoFields
    /\ response' = NoResponse
    /\ UNCHANGED <<fn_arg, fn_ret, fn_done>>

Next ==
    \/ RequestNoFile
    \/ \E f \in Files : RequestFile(f)
    \/ ReadTextLayer
    \/ RasterizeOk
    \/ RasterizeRaise
    \/ \E raw \in OcrTexts : OcrOk(raw)
    \/ OcrRaise
    \/ DeduplicateLines
    \/ ExtractFields
    \/ RespondSuccess
    \/ NextRequest

Spec == Init /\ [][Next]_vars

---------------------------------------------------------------------------
(* Properties of the pipeline, checked under Spec.                         *)

\* extract_fields_from_pdfbytes has built its record
RecordProduced == pc = "return" \/ (pc = "responded" /\ response.status = "success")

\* the normalized text-layer lines (T) and the normalized OCR lines (O)
TextLines == NormalizedLines(text_layer)
OcrLines == ocr_lines_from_image(ocr_raw)

FirstIndex(ls, x) == CHOOSE i \in DOMAIN ls : ls[i] = x /\ \A j \in 1..(i - 1) : ls[j] # x

NoRepeats(ls) == \A i, j \in DOMAIN ls : i # j => ls[i] # ls[j]

\* C1: once the OCR lines are in, the merged line list holds every line of
\* T and O exactly once, in the order of first occurrence in T followed by O,
\* so lines of the text layer come before lines only OCR produced.
C1_MergeUnique ==
    (pc \in {"extract", "return", "responded"} /\ ocr = "text") =>
        /\ NoRepeats(merged_lines)
        /\ Range(merged_lines) = Range(TextLines \o OcrLines)
        /\ \A i, j \in DOMAIN merged_lines :
              i < j => FirstIndex(TextLines \o OcrLines, merged_lines[i])
                         < FirstIndex(TextLines \o OcrLines, merged_lines[j])
        /\ \A i, j \in DOMAIN merged_lines :
              (InList(merged_lines[i], TextLines) /\ ~InList(merged_lines[j], TextLines)) => i < j

\* both sources repeat a line, OCR repeats a text-layer line and adds a new one
C1_Witness ==
    /\ pc = "extract" /\ ocr = "text"
    /\ ~NoRepeats(TextLines) /\ ~NoRepeats(OcrLines)
    /\ \E i \in DOMAIN OcrLines : InList(OcrLines[i], TextLines)
    /\ \E i \in DOMAIN OcrLines : ~InList(OcrLines[i], TextLines)
    /\ Len(merged_lines) < Len(lines)

\* C2: in every record produced, Total_Amount is Taxable_Value + IGST + CGST
\* + SGST, a component no line gave counting 0.
C2_TotalAmountLaw ==
    RecordProduced =>
        fields.Total_Amount =
            FloatAdd(FloatAdd(FloatAdd(fields.Taxable_Value, fields.IGST), fields.CGST), fields.SGST)

C2_Witness ==
    /\ RecordProduced
    /\ fields.Taxable_Value # Zero /\ fields.CGST # Zero /\ fields.IGST # Zero
    /\ fields.SGST = Zero
    /\ fields.Total_Amount \notin {fields.Taxable_Value, fields.CGST, fields.IGST}

\* C3: when the rasterizer or the OCR call raised, the line list is exactly
\* the normalized text-layer lines, the call still returns, and the record is
\* the one those lines alone produce.
C3_OcrFailureAbsorbed ==
    (pc \in {"deduplicate", "extract", "return", "responded"} /\ (img = "raised" \/ ocr = "raised")) =>
        /\ lines = TextLines
        /\ RecordProduced => fields = ExtractRecord(Deduplicate(TextLines))
        /\ pc = "responded" => response.status = "success"

C3_Witness ==
    /\ pc = "responded" /\ response.status = "success"
    /\ img = "image" /\ ocr = "raised"
    /\ lines # <<>> /\ fields.CGST # Zero /\ fields.Seller_GST # <<>>

\* a record with every key, each at its default
AllDefaults ==
    [Invoice_Number |-> <<>>, Seller_GST |-> <<>>, Seller_State |-> "",
     Seller_State_Code |-> <<>>, Buyer_GST |-> <<>>, Buyer_State |-> "",
     Buyer_State_Code |-> <<>>, IGST |-> Zero, CGST |-> Zero, SGST |-> Zero,
     Taxable_Value |-> Zero, Total_Amount |-> Zero]

\* C4: with an empty text layer and a failed rasterize+OCR step the call
\* returns, and its record has every key at its default.
C4_AllSourcesFail ==
    (pc \in {"return", "responded"} /\ file.kind # "none" /\ text_layer = <<>>
        /\ (img = "raised" \/ ocr = "raised")) =>
        /\ fields = AllDefaults
        /\ pc = "responded" => response.status = "success"

C4_Witness ==
    /\ pc = "responded" /\ response.status = "success"
    /\ file.kind = "pdf" /\ file.pages # <<>>
    /\ text_layer = <<>> /\ img = "image" /\ ocr = "raised"

\* C5: bytes that are not a PDF make the extraction call fail, so that
\* extract_api answers with an error; every other upload is answered with
\* success.
C5_MalformedPropagates ==
    (pc = "responded" /\ file.kind # "none") =>
        (response.status = "error" <=> file.kind = "malformed")

TwoDigitCodes == {<<a, b>> : a \in Range(DigitSeq), b \in Range(DigitSeq)}

InTable(code) == \E i \in DOMAIN STATE_CODES : STATE_CODES[i][1] = code

\* strings of at most three characters, none of them white space
ShortGstins == SeqsUpTo({"2", "7", "9", "A", "z"}, 3)

StateCodeLaw(gst, code, state) ==
    /\ code = (IF Len(gst) >= 2 /\ IsDigit(gst[1]) /\ IsDigit(gst[2]) THEN SubSeq(gst, 1, 2) ELSE <<>>)
    /\ InTable(code) => \E i \in DOMAIN STATE_CODES : STATE_CODES[i] = <<code, state>>
    /\ ~InTable(code) => state = ""
    /\ code = <<"2","7">> => state = "Maharashtra"
    /\ Len(code) <= Len(gst) /\ code = SubSeq(gst, 1, Len(code))

\* C9: the state code of a GSTIN is its first two characters when it has at
\* least two and they are digits, and "" otherwise; the state name is the
\* table's entry for the code, "" for a code the table lacks, "Maharashtra"
\* for "27"; in every record each state code is a prefix of its GSTIN.
C9_StateCode ==
    /\ \A g \in ShortGstins :
          StateCodeLaw(g, extract_state_code_from_gstin(g),
                       gst_code_to_state(extract_state_code_from_gstin(g)))
    /\ \A c \in TwoDigitCodes :
          /\ InTable(c) => \E i \in DOMAIN STATE_CODES : STATE_CODES[i] = <<c, gst_code_to_state(c)>>
          /\ ~InTable(c) => gst_code_to_state(c) = ""
    /\ gst_code_to_state(<<"2","7">>) = "Maharashtra"
    /\ RecordProduced =>
          /\ StateCodeLaw(fields.Seller_GST, fields.Seller_State_Code, fields.Seller_State)
          /\ StateCodeLaw(fields.Buyer_GST, fields.Buyer_State_Code, fields.Buyer_State)
          /\ fields.Seller_GST # <<>> => Len(fields.Seller_GST) >= 2
          /\ fields.Buyer_GST # <<>> => Len(fields.Buyer_GST) >= 2

C9_Witness ==
    /\ RecordProduced
    /\ fields.Seller_State_Code = <<"9","9">> /\ fields.Seller_State = ""
    /\ fields.Buyer_State_Code = <<"2","7">> /\ fields.Buyer_State = "Maharashtra"

---------------------------------------------------------------------------
(* The pure functions, each applied once to an argument drawn from a       *)
(* bounded set of inputs.                                                  *)

\* the concatenations of at most n of the pieces
RECURSIVE Concats(_, _)
Concats(pieces, n) ==
    IF n = 0 THEN {<<>>}
    ELSE Concats(pieces, n - 1) \cup {q \o x : q \in Concats(pieces, n - 1), x \in pieces}

FnInit(inputs) ==
    /\ PipelineInit
    /\ fn_arg \in inputs
    /\ fn_ret = <<>>
    /\ fn_done = FALSE

PipelineIdle ==
    UNCHANGED <<pc, file, text_layer, lines, img, ocr, ocr_raw, merged_lines, fields, response>>

(* normalize_ocr_line *)

MaxPieces == 4

LinePieces == {<<"C","6","S","T">>, <<"C","6">>, <<"S","6">>, <<"S","T">>, <<"1">>, <<"G","S","T">>, <<" ">>, <<" "," ">>, <<"\t">>}

RawLines == Concats(LinePieces, MaxPieces)

ApplyNormalize ==
    /\ ~fn_done
    /\ fn_ret' = normalize_ocr_line(fn_arg)
    /\ fn_done' = TRUE
    /\ UNCHANGED fn_arg
    /\ PipelineIdle

SpecNormalize == FnInit(RawLines) /\ [][ApplyNormalize]_vars

\* a run of two or more white-space characters
HasSpaceRun(s) == \E i \in 1..(Len(s) - 1) : IsSpace(s[i]) /\ IsSpace(s[i + 1])

\* C10: normalizing a normalized line changes nothing; a normalized line
\* holds no misread token, no tab, no run of two or more white-space
\* characters and no white space at either end.
C10_NormalizeIdempotent ==
    fn_done =>
        /\ normalize_ocr_line(fn_ret) = fn_ret
        /\ ~Contains(fn_ret, <<"C","6","S","T">>) /\ ~Contains(fn_ret, <<"S","6","S","T">>) /\ ~Contains(fn_ret, <<"1","G","S","T">>)
        /\ ~Contains(fn_ret, <<"\t">>)
        /\ ~HasSpaceRun(fn_ret)
        /\ fn_ret # <<>> => ~IsSpace(fn_ret[1]) /\ ~IsSpace(fn_ret[Len(fn_ret)])

C10_Witness ==
    /\ fn_done
    /\ Contains(fn_arg, <<"C","6","S","T">>) /\ Contains(fn_ret, <<"C","G","S","T">>)
    /\ HasSpaceRun(Strip(fn_arg))
    /\ Len(fn_ret) >= 6

(* extract_gst_values_from_lines *)

MaxTaxLines == 3

TaxLines == {
    <<"C","G","S","T"," ","1",",","2","3","4",".","5","0">>,
    <<"C","G","S","T"," ","9","%"," ","5","0">>,
    <<"c","g","s","t","/","s","g","s","t"," ","7">>,
    <<"I","G","S","T">>,
    <<"T","a","x","a","b","l","e"," ","V","a","l","u","e"," ","1","0","0",".","5">>,
    <<"S","G","S","T"," ","9",".","5","0">>,
    <<"T","o","t","a","l"," ","9","9","9","9","9">>,
    <<"T","A","X","A","B","L","E"," ","2","0"," ","I","G","S","T"," ","0",".","5">> }

ApplyGstValues ==
    /\ ~fn_done
    /\ fn_ret' = extract_gst_values_from_lines(fn_arg)
    /\ fn_done' = TRUE
    /\ UNCHANGED fn_arg
    /\ PipelineIdle

SpecGstValues == FnInit(SeqsUpTo(TaxLines, MaxTaxLines)) /\ [][ApplyGstValues]_vars

\* the numeric values on the lines of ls whose upper-cased text holds the label
LabelValues(ls, label) ==
    UNION {Range(NumArgs(FindNums(ls[i], 1))) \ (IF FindNums(ls[i], 1) = <<>> THEN {Zero} ELSE {}) :
           i \in {j \in DOMAIN ls : Contains(StrUpper(ls[j]), label)}}

IsMaxOf(v, S) == IF S = {} THEN v = Zero ELSE v \in S /\ \A w \in S : ~FloatLess(v, w)

\* C8: each of the four values is the greatest number on the lines holding
\* its label, whatever the order of the lines, and 0 when no line holds the
\* label; lines without the label play no part.
C8_MaxPerLabel ==
    fn_done =>
        /\ IsMaxOf(fn_ret.Taxable_Value, LabelValues(fn_arg, <<"T","A","X","A","B","L","E">>))
        /\ IsMaxOf(fn_ret.CGST, LabelValues(fn_arg, <<"C","G","S","T">>))
        /\ IsMaxOf(fn_ret.SGST, LabelValues(fn_arg, <<"S","G","S","T">>))
        /\ IsMaxOf(fn_ret.IGST, LabelValues(fn_arg, <<"I","G","S","T">>))

C8_Witness ==
    /\ fn_done
    /\ fn_arg = <<<<"C","G","S","T"," ","1",",","2","3","4",".","5","0">>, <<"T","o","t","a","l"," ","9","9","9","9","9">>, <<"C","G","S","T"," ","9","%"," ","5","0">>>>
    /\ fn_ret.CGST = <<12345, -1>>
    /\ fn_ret.SGST = Zero

(* extract_invoice_number_from_lines *)

MaxInvLines == 3

InvLines == {
    <<"T","A","X"," ","I","N","V","O","I","C","E">>,
    <<"I","n","v","o","i","c","e"," ","N","o",":"," ","I","N","V","-","2","0","2","4","/","0","0","1">>,
    <<"I","N","V","O","I","C","E"," ","N","U","M","B","E","R"," ","X","-","7","7">>,
    <<"i","n","v","o","i","c","e"," ","n","o","."," ","A","B","-","1">>,
    <<"D","a","t","e"," ","1","2","/","0","5","/","2","0","2","4">>,
    <<"G","S","T","I","N"," ","2","7","A","A","A","A","A","0","0","0","0","A","1","Z","5">>,
    <<"o","k">> }

ApplyInvoiceNumber ==
    /\ ~fn_done
    /\ fn_ret' = extract_invoice_number_from_lines(fn_arg)
    /\ fn_done' = TRUE
    /\ UNCHANGED fn_arg
    /\ PipelineIdle

SpecInvoice == FnInit(SeqsUpTo(InvLines, MaxInvLines)) /\ [][ApplyInvoiceNumber]_vars

IsTokenChar(c) == IsAlnum(c) \/ c \in {"/", "-"}

\* the index after the label "Invoice No" or "Invoice Number" that starts at
\* index i of the upper-cased text, or 0 when none starts there
LabelEnd(up, i) ==
    IF StartsWithAt(up, i, <<"I","N","V","O","I","C","E"," ","N","U","M","B","E","R">>) THEN i + 14
    ELSE IF StartsWithAt(up, i, <<"I","N","V","O","I","C","E"," ","N","O">>) THEN i + 10
    ELSE 0

RECURSIVE SkipTo(_, _)
SkipTo(s, i) == IF i <= Len(s) /\ s[i] \in {" ", ":", ".", "#"} THEN SkipTo(s, i + 1) ELSE i

RECURSIVE TokenEnd(_, _)
TokenEnd(s, i) == IF i <= Len(s) /\ IsTokenChar(s[i]) THEN TokenEnd(s, i + 1) ELSE i

\* the token that follows the label starting at index i
TokenAfter(s, i) ==
    SubSeq(s, SkipTo(s, LabelEnd(StrUpper(s), i)), TokenEnd(s, SkipTo(s, LabelEnd(StrUpper(s), i))) - 1)

\* the indices where a label followed by a token starts
LabelledAt(s) == {i \in DOMAIN s : LabelEnd(StrUpper(s), i) # 0 /\ TokenAfter(s, i) # <<>>}

Least(S) == CHOOSE i \in S : \A j \in S : i <= j

\* C7: when the text holds the label "Invoice No" or "Invoice Number", in any
\* case, followed by a token, the result is the token after the first such
\* label, whatever precedes the label.
C7_LabelledInvoiceNumber ==
    (fn_done /\ LabelledAt(Join(fn_arg)) # {}) =>
        fn_ret = TokenAfter(Join(fn_arg), Least(LabelledAt(Join(fn_arg))))

(* extract_gstins_from_lines *)

MaxGstinLines == 3

GstinLines == {
    <<"2","7","A","A","A","A","A","0","0","0","0","A","1","Z","5">>,
    <<"0","7","B","B","B","B","B","1","1","1","1","B","2","Z","6">>,
    <<"7","B","B","B","B","B","1","1","1","1","B","2","Z","6">>,
    <<"g","s","t","i","n",":"," ","2","7","a","a","a","a","a","0","0","0","0","a","1","z","5">>,
    <<"0","7","-","B","B","B","B","B"," ","1","1","1","1","-","B","2","Z","6">>,
    <<"2","7","A","A","A","A","A","0","0">>,
    <<"0","0","A","1","Z","5">>,
    <<"2","7","A","A","A","A","A","0","0","1","2","A","B","Z","C">>,
    <<"D","1","1","1","1","E","1","Z","5">>,
    <<"B","u","y","e","r"," ","4","2">> }

ApplyGstins ==
    /\ ~fn_done
    /\ fn_ret' = extract_gstins_from_lines(fn_arg)
    /\ fn_done' = TRUE
    /\ UNCHANGED fn_arg
    /\ PipelineIdle

SpecGstin == FnInit(SeqsUpTo(GstinLines, MaxGstinLines)) /\ [][ApplyGstins]_vars

\* w is 2 digits, 5 letters, 4 digits, 1 letter, 1 alphanumeric, "Z", 1 alphanumeric
WellFormedGstin(w) ==
    /\ Len(w) = 15
    /\ \A i \in {1, 2, 8, 9, 10, 11} : IsDigit(w[i])
    /\ \A i \in {3, 4, 5, 6, 7, 12} : IsUpper(w[i])
    /\ \A i \in {13, 15} : IsUpper(w[i]) \/ IsDigit(w[i])
    /\ w[14] = "Z"

\* the text matching runs on: upper-cased, everything but letters and digits removed
Squeezed(ls) == SelectSeq(StrUpper(Join(ls)), IsAlnum)

\* where the well-formed GSTIN-pattern substrings of s start
GstinStarts(s) == {i \in 1..(Len(s) - 14) : WellFormedGstin(SubSeq(s, i, i + 14))}

Greatest(S) == CHOOSE i \in S : \A j \in S : j <= i

SellerFirstBuyerSecond(ls, ret) ==
    /\ ret[1] = SubSeq(Squeezed(ls), Least(GstinStarts(Squeezed(ls))), Least(GstinStarts(Squeezed(ls))) + 14)
    /\ ret[3] = SubSeq(Squeezed(ls), Greatest(GstinStarts(Squeezed(ls))), Greatest(GstinStarts(Squeezed(ls))) + 14)
    /\ Len(ret[1]) = 15 /\ Len(ret[3]) = 15

Overlapping(S) == Greatest(S) - Least(S) < 15

\* C6 as claimed: with exactly two well-formed GSTIN-pattern substrings in
\* the text matching runs on, Seller is the first and Buyer the second, each
\* 15 characters long.
C6_TwoGstins ==
    (fn_done /\ Cardinality(GstinStarts(Squeezed(fn_arg))) = 2) =>
        SellerFirstBuyerSecond(fn_arg, fn_ret)

\* C6 amended: the same when the two substrings do not overlap; when they
\* overlap, Seller is the first and Buyer is "".
C6_TwoDisjointGstins ==
    (fn_done /\ Cardinality(GstinStarts(Squeezed(fn_arg))) = 2) =>
        IF Overlapping(GstinStarts(Squeezed(fn_arg)))
        THEN /\ fn_ret[1] = SubSeq(Squeezed(fn_arg), Least(GstinStarts(Squeezed(fn_arg))),
                                   Least(GstinStarts(Squeezed(fn_arg))) + 14)
             /\ fn_ret[3] = <<>>
        ELSE SellerFirstBuyerSecond(fn_arg, fn_ret)

\* two GSTINs, neither of them a substring of the text as written
C6_Witness ==
    /\ fn_done
    /\ Cardinality(GstinStarts(Squeezed(fn_arg))) = 2
    /\ ~Overlapping(GstinStarts(Squeezed(fn_arg)))
    /\ fn_ret[1] # fn_ret[3]
    /\ ~Contains(Join(fn_arg), fn_ret[1]) /\ ~Contains(Join(fn_arg), fn_ret[3])

=============================================================================
